---- MODULE Spec2Model ----
(***************************************************************************)
(* Text-formatting engine of LiveMate: the style detectors/appliers of     *)
(* lib/formatting-actions, the selection-context resolver of               *)
(* lib/advanced-formatting and the toggle orchestrator of the              *)
(* useTextFormatting hook, driven by a CodeMirror editor view.             *)
(*                                                                         *)
(* Text is a sequence of one-character strings; document offsets are       *)
(* 0-based as in CodeMirror, so the character at offset p is d[p + 1].     *)
(***************************************************************************)
EXTENDS Integers, Sequences, FiniteSets, TLC

VARIABLES doc, selFrom, selTo, editorView, hook, last, toggles,
          activeKeyboardIndex

vars == <<doc, selFrom, selTo, editorView, hook, last, toggles,
          activeKeyboardIndex>>

(***************************************************************************)
(* Bounds: documents never grow past MaxDocLen characters, and a run holds  *)
(* at most MaxToggles toggle requests.                                     *)
(***************************************************************************)
MaxDocLen == 14
MaxToggles == 1
MaxTextLen == 15
MaxLayers == 3

(***************************************************************************)
(* JavaScript string primitives.                                           *)
(***************************************************************************)
NL == "\n"
TAB == "\t"

IsSpace(c) == c \in {" ", TAB, NL}

Min(S) == CHOOSE x \in S : \A y \in S : x <= y
Max(S) == CHOOSE x \in S : \A y \in S : x >= y

\* String.prototype.trim: drop the white space at both ends.
RECURSIVE TrimStart(_, _)
TrimStart(s, i) ==
  IF i <= Len(s) /\ IsSpace(s[i]) THEN TrimStart(s, i + 1) ELSE i

RECURSIVE TrimEnd(_, _)
TrimEnd(s, j) ==
  IF j >= 1 /\ IsSpace(s[j]) THEN TrimEnd(s, j - 1) ELSE j

Trim(s) == SubSeq(s, TrimStart(s, 1), TrimEnd(s, Len(s)))

startsWith(s, p) == Len(s) >= Len(p) /\ SubSeq(s, 1, Len(p)) = p
endsWith(s, p) == Len(s) >= Len(p) /\ SubSeq(s, Len(s) - Len(p) + 1, Len(s)) = p

\* s.slice(a, -b) for 0 <= a and b > 0.
Slice(s, a, b) == SubSeq(s, a + 1, Len(s) - b)

\* Length of the run of characters of C that starts at position i of s.
RECURSIVE RunLength(_, _, _)
RunLength(s, i, C) ==
  IF i <= Len(s) /\ s[i] \in C THEN 1 + RunLength(s, i + 1, C) ELSE 0

Whitespace == {" ", TAB, NL}

BOpen == <<"<", "b", ">">>
BClose == <<"<", "/", "b", ">">>
IOpen == <<"<", "i", ">">>
IClose == <<"<", "/", "i", ">">>
UOpen == <<"<", "u", ">">>
UClose == <<"<", "/", "u", ">">>
Tildes == <<"~", "~">>

(***************************************************************************)
(* Style detectors / appliers (lib/formatting-actions).                    *)
(***************************************************************************)
isBold(text) ==
  LET trimmed == Trim(text)
  IN startsWith(trimmed, BOpen) /\ endsWith(trimmed, BClose) /\ Len(trimmed) > 7

applyBold(text) == BOpen \o text \o BClose

\* Variant: one layer only, as for underline and strikethrough.
removeBoldLoop_Once(result) ==
  IF startsWith(result, BOpen) /\ endsWith(result, BClose) /\ Len(result) > 7
  THEN Slice(result, 3, 4)
  ELSE result

RECURSIVE removeBoldLoop(_)
removeBoldLoop(result) ==
  IF startsWith(result, BOpen) /\ endsWith(result, BClose) /\ Len(result) > 7
  THEN removeBoldLoop(Slice(result, 3, 4))
  ELSE result

removeBold(text) == removeBoldLoop(Trim(text))

toggleBold(text) == IF isBold(text) THEN removeBold(text) ELSE applyBold(text)

\* Variant: italic is looked for under the bold layers as well.
isItalic_UnderBold(text) ==
  LET trimmed == removeBoldLoop(Trim(text))
  IN startsWith(trimmed, IOpen) /\ endsWith(trimmed, IClose) /\ Len(trimmed) > 7

isItalic(text) ==
  LET trimmed == Trim(text)
  IN IF startsWith(trimmed, BOpen) \/ endsWith(trimmed, BClose)
     THEN FALSE
     ELSE startsWith(trimmed, IOpen) /\ endsWith(trimmed, IClose) /\ Len(trimmed) > 7

applyItalic(text) == IOpen \o text \o IClose

\* Variant: the bold check looks under the italic layer being removed.
RECURSIVE removeItalicLoop_BoldInside(_)
removeItalicLoop_BoldInside(result) ==
  IF startsWith(result, IOpen) /\ endsWith(result, IClose) /\ Len(result) > 7
  THEN IF startsWith(Slice(result, 3, 4), BOpen) \/ endsWith(Slice(result, 3, 4), BClose)
       THEN result
       ELSE removeItalicLoop_BoldInside(Slice(result, 3, 4))
  ELSE result

RECURSIVE removeItalicLoop(_)
removeItalicLoop(result) ==
  IF startsWith(result, IOpen) /\ endsWith(result, IClose) /\ Len(result) > 7
  THEN IF startsWith(result, BOpen) \/ endsWith(result, BClose)
       THEN result
       ELSE removeItalicLoop(Slice(result, 3, 4))
  ELSE result

removeItalic(text) == removeItalicLoop(Trim(text))

toggleItalic(text) == IF isItalic(text) THEN removeItalic(text) ELSE applyItalic(text)

isStrikethrough(text) ==
  LET trimmed == Trim(text)
  IN startsWith(trimmed, Tildes) /\ endsWith(trimmed, Tildes) /\ Len(trimmed) > 4

applyStrikethrough(text) == Tildes \o text \o Tildes

\* Variant: every layer is removed, as for bold and italic.
RECURSIVE removeStrikethrough_AllLayers(_)
removeStrikethrough_AllLayers(text) ==
  LET trimmed == Trim(text)
  IN IF isStrikethrough(trimmed)
     THEN removeStrikethrough_AllLayers(Slice(trimmed, 2, 2))
     ELSE text

removeStrikethrough(text) ==
  LET trimmed == Trim(text)
  IN IF isStrikethrough(trimmed) THEN Slice(trimmed, 2, 2) ELSE text

toggleStrikethrough(text) ==
  IF isStrikethrough(text) THEN removeStrikethrough(text) ELSE applyStrikethrough(text)

isUnderline(text) ==
  LET trimmed == Trim(text)
  IN startsWith(trimmed, UOpen) /\ endsWith(trimmed, UClose) /\ Len(trimmed) > 7

applyUnderline(text) == UOpen \o text \o UClose

\* Variant: the content is trimmed as well.
removeUnderline_TrimsContent(text) ==
  LET trimmed == Trim(text)
  IN IF isUnderline(trimmed) THEN Trim(Slice(trimmed, 3, 4)) ELSE text

removeUnderline(text) ==
  LET trimmed == Trim(text)
  IN IF isUnderline(trimmed) THEN Slice(trimmed, 3, 4) ELSE text

toggleUnderline(text) ==
  IF isUnderline(text) THEN removeUnderline(text) ELSE applyUnderline(text)

\* Number of leading '#' of the trimmed text; a header needs 1..3 of them
\* followed by a space character.
getHeaderLevel(text) ==
  LET trimmed == Trim(text)
      level == RunLength(trimmed, 1, {"#"})
  IN IF level > 0 /\ level <= 3 /\ level + 1 <= Len(trimmed) /\ trimmed[level + 1] = " "
     THEN level
     ELSE 0

isH1(text) == getHeaderLevel(text) = 1
\* Variant: "at least two '#'" instead of "exactly two".
isH2_AtLeast(text) == getHeaderLevel(text) >= 2

isH2(text) == getHeaderLevel(text) = 2
isH3(text) == getHeaderLevel(text) = 3

\* Variant: s.replace(/^#+/, ''), the white space after the marker stays.
StripHeaderMarker_HashesOnly(s) ==
  LET h == RunLength(s, 1, {"#"})
      w == RunLength(s, h + 1, Whitespace)
  IN IF h > 0 /\ w > 0 THEN SubSeq(s, h + 1, Len(s)) ELSE s

\* s.replace(/^#+\s+/, ''): the greedy run of '#' must be followed by at
\* least one white-space character, and the whole white-space run goes too.
StripHeaderMarker(s) ==
  LET h == RunLength(s, 1, {"#"})
      w == RunLength(s, h + 1, Whitespace)
  IN IF h > 0 /\ w > 0 THEN SubSeq(s, h + w + 1, Len(s)) ELSE s

\* s.replace(/^[-*]\s+/, '')
StripBulletMarker(s) ==
  LET w == RunLength(s, 2, Whitespace)
  IN IF Len(s) >= 1 /\ s[1] \in {"-", "*"} /\ w > 0
     THEN SubSeq(s, w + 2, Len(s))
     ELSE s

applyH1(text) == <<"#", " ">> \o StripHeaderMarker(Trim(text))
applyH2(text) == <<"#", "#", " ">> \o StripHeaderMarker(Trim(text))
applyH3(text) == <<"#", "#", "#", " ">> \o StripHeaderMarker(Trim(text))

\* Variant: the marker is left in place.
removeHeader_KeepsMarker(text) == Trim(text)

removeHeader(text) == StripHeaderMarker(Trim(text))

toggleH1(text) == IF isH1(text) THEN removeHeader(text) ELSE applyH1(text)
toggleH2(text) == IF isH2(text) THEN removeHeader(text) ELSE applyH2(text)
toggleH3(text) == IF isH3(text) THEN removeHeader(text) ELSE applyH3(text)

\* /^[-*]\s/.test(trimmed)
isBulletList(text) ==
  LET trimmed == Trim(text)
  IN Len(trimmed) >= 2 /\ trimmed[1] \in {"-", "*"} /\ IsSpace(trimmed[2])

applyBulletList(text) == <<"-", " ">> \o StripBulletMarker(Trim(text))

removeBulletList(text) == StripBulletMarker(Trim(text))

toggleBulletList(text) ==
  IF isBulletList(text) THEN removeBulletList(text) ELSE applyBulletList(text)

FormatTypes == {"bold", "italic", "underline", "strikethrough", "h1", "h2", "h3", "bullet"}
InlineTypes == {"bold", "italic", "underline", "strikethrough"}
HeaderTypes == {"h1", "h2", "h3"}

detectFormatState(text) ==
  [bold |-> isBold(text), italic |-> isItalic(text),
   underline |-> isUnderline(text), strikethrough |-> isStrikethrough(text),
   h1 |-> isH1(text), h2 |-> isH2(text), h3 |-> isH3(text),
   bullet |-> isBulletList(text)]

toggleFormat(text, formatType) ==
  CASE formatType = "bold" -> toggleBold(text)
    [] formatType = "italic" -> toggleItalic(text)
    [] formatType = "underline" -> toggleUnderline(text)
    [] formatType = "strikethrough" -> toggleStrikethrough(text)
    [] formatType = "h1" -> toggleH1(text)
    [] formatType = "h2" -> toggleH2(text)
    [] formatType = "h3" -> toggleH3(text)
    [] formatType = "bullet" -> toggleBulletList(text)

\* The appliers and removers of lib/formatting-actions, by format type.
applyFormat(text, formatType) ==
  CASE formatType = "bold" -> applyBold(text)
    [] formatType = "italic" -> applyItalic(text)
    [] formatType = "underline" -> applyUnderline(text)
    [] formatType = "strikethrough" -> applyStrikethrough(text)
    [] formatType = "h1" -> applyH1(text)
    [] formatType = "h2" -> applyH2(text)
    [] formatType = "h3" -> applyH3(text)
    [] formatType = "bullet" -> applyBulletList(text)

removeFormat(text, formatType) ==
  CASE formatType = "bold" -> removeBold(text)
    [] formatType = "italic" -> removeItalic(text)
    [] formatType = "underline" -> removeUnderline(text)
    [] formatType = "strikethrough" -> removeStrikethrough(text)
    [] formatType \in HeaderTypes -> removeHeader(text)
    [] formatType = "bullet" -> removeBulletList(text)

(***************************************************************************)
(* The editor document (CodeMirror Text): lines are separated by "\n", a   *)
(* line is [number, from, to] and its range excludes the line break.       *)
(***************************************************************************)
sliceDoc(d, from, to) == SubSeq(d, from + 1, to)

lineAt(d, pos) ==
  LET before == {i \in 1..pos : d[i] = NL}
      after == {i \in (pos + 1)..Len(d) : d[i] = NL}
  IN [number |-> 1 + Cardinality(before),
      from |-> IF before = {} THEN 0 ELSE Max(before),
      to |-> IF after = {} THEN Len(d) ELSE Min(after) - 1]

LineCount(d) == 1 + Cardinality({i \in 1..Len(d) : d[i] = NL})

line(d, n) ==
  IF n = 1
  THEN lineAt(d, 0)
  ELSE lineAt(d, CHOOSE i \in 1..Len(d) :
                   d[i] = NL /\ Cardinality({j \in 1..i : d[j] = NL}) = n - 1)

getLineContent(d, l) == sliceDoc(d, l.from, l.to)

(***************************************************************************)
(* Selection-context resolver (lib/advanced-formatting).                   *)
(***************************************************************************)
\* A detector passed as an argument (formatChecker / headerChecker) is named
\* by its identifier.
Check(checker, text) ==
  CASE checker = "isBold" -> isBold(text)
    [] checker = "isItalic" -> isItalic(text)
    [] checker = "isUnderline" -> isUnderline(text)
    [] checker = "isStrikethrough" -> isStrikethrough(text)
    [] checker = "isH1" -> isH1(text)
    [] checker = "isH2" -> isH2(text)
    [] checker = "isH3" -> isH3(text)
    [] checker = "isBulletList" -> isBulletList(text)

getSelectedLines(d, from, to) ==
  LET startLine == lineAt(d, from)
      endLine == lineAt(d, to)
  IN [k \in 1..(endLine.number - startLine.number + 1) |->
        line(d, startLine.number + k - 1)]

\* Variant: lines.every instead of lines.some.
hasInlineFormatInSelection_Every(d, lines, formatChecker) ==
  \A k \in 1..Len(lines) : Check(formatChecker, sliceDoc(d, lines[k].from, lines[k].to))

hasInlineFormatInSelection(d, lines, formatChecker) ==
  \E k \in 1..Len(lines) : Check(formatChecker, sliceDoc(d, lines[k].from, lines[k].to))

allLinesHaveHeaderLevel(d, lines, headerChecker) ==
  IF Len(lines) = 0
  THEN FALSE
  ELSE \A k \in 1..Len(lines) : Check(headerChecker, sliceDoc(d, lines[k].from, lines[k].to))

NoFormat ==
  [bold |-> FALSE, italic |-> FALSE, underline |-> FALSE, strikethrough |-> FALSE,
   h1 |-> FALSE, h2 |-> FALSE, h3 |-> FALSE, bullet |-> FALSE]

\* Variant: the isSingleLine conjunct is missing.
headerFlag_AnyCount(d, selectedLines, headerChecker) ==
  allLinesHaveHeaderLevel(d, selectedLines, headerChecker)

\* h1/h2/h3: isSingleLine && allLinesHaveHeaderLevel(state, selectedLines, checker)
headerFlag(d, selectedLines, headerChecker) ==
  Len(selectedLines) = 1 /\ allLinesHaveHeaderLevel(d, selectedLines, headerChecker)

\* Variant: selectedLines.some instead of selectedLines.every.
bulletFlag_Some(d, selectedLines) ==
  Len(selectedLines) > 0 /\
  \E k \in 1..Len(selectedLines) :
    isBulletList(sliceDoc(d, selectedLines[k].from, selectedLines[k].to))

\* bullet: selectedLines.length > 0 && selectedLines.every(isBulletList)
bulletFlag(d, selectedLines) ==
  Len(selectedLines) > 0 /\
  \A k \in 1..Len(selectedLines) :
    isBulletList(sliceDoc(d, selectedLines[k].from, selectedLines[k].to))

detectAdvancedFormatState(d, from, to) ==
  LET selectedLines == getSelectedLines(d, from, to)
  IN IF Len(selectedLines) = 0
     THEN NoFormat
     ELSE [bold |-> hasInlineFormatInSelection(d, selectedLines, "isBold"),
           italic |-> hasInlineFormatInSelection(d, selectedLines, "isItalic"),
           underline |-> hasInlineFormatInSelection(d, selectedLines, "isUnderline"),
           strikethrough |-> hasInlineFormatInSelection(d, selectedLines, "isStrikethrough"),
           h1 |-> headerFlag(d, selectedLines, "isH1"),
           h2 |-> headerFlag(d, selectedLines, "isH2"),
           h3 |-> headerFlag(d, selectedLines, "isH3"),
           bullet |-> bulletFlag(d, selectedLines)]

(***************************************************************************)
(* The memoised part of useTextFormatting: what the hook hands to the UI.  *)
(* view is "null" until the component has rendered with a mounted editor.  *)
(* The memo also holds selectedText, which no caller of the hook reads; it *)
(* is left out of the state.                                               *)
(***************************************************************************)
useTextFormattingMemo(view, d, from, to) ==
  IF view = "null"
  THEN [formatState |-> NoFormat, hasSelection |-> FALSE]
  ELSE IF from = to
       THEN LET l == lineAt(d, from)
                formatState == detectAdvancedFormatState(d, l.from, l.to)
            IN [formatState |-> [formatState EXCEPT !.bold = FALSE, !.italic = FALSE,
                                                    !.underline = FALSE,
                                                    !.strikethrough = FALSE],
                hasSelection |-> FALSE]
       ELSE [formatState |-> detectAdvancedFormatState(d, from, to),
             hasSelection |-> TRUE]

\* A render of CodeMirrorEditor: editorView becomes the mounted view, and
\* useMemo(..., [view]) recomputes only when that dependency changed.
RenderedHook(d, from, to) ==
  IF editorView = "null" THEN useTextFormattingMemo("view", d, from, to) ELSE hook

(***************************************************************************)
(* view.dispatch: a transaction is [changes, selection]; the positions of  *)
(* all changes refer to the document before the transaction.               *)
(***************************************************************************)
NoSelection == [anchor |-> -1, head |-> -1]

RECURSIVE ApplyChanges(_, _)
ApplyChanges(d, changes) ==
  IF changes = <<>>
  THEN d
  ELSE LET c == changes[Len(changes)]
       IN ApplyChanges(SubSeq(d, 1, c.from) \o c.insert \o SubSeq(d, c.to + 1, Len(d)),
                       SubSeq(changes, 1, Len(changes) - 1))

\* ChangeDesc.mapPos(pos, assoc) over changes in ascending order.
RECURSIVE MapPos(_, _, _, _, _)
MapPos(changes, k, pos, assoc, shift) ==
  IF k > Len(changes)
  THEN pos + shift
  ELSE LET c == changes[k]
           len == c.to - c.from
           ins == Len(c.insert)
       IN IF pos < c.from
          THEN pos + shift
          ELSE IF c.to > pos \/ (c.to = pos /\ assoc < 0 /\ len = 0)
               THEN IF pos = c.from \/ assoc < 0
                    THEN c.from + shift
                    ELSE c.from + shift + ins
               ELSE MapPos(changes, k + 1, pos, assoc, shift + ins - len)

\* RangeError "Invalid change range" / "Selection points outside of document".
DispatchThrows(d, tr) ==
  \/ \E k \in 1..Len(tr.changes) :
       LET c == tr.changes[k] IN c.from > c.to \/ c.from < 0 \/ c.to > Len(d)
  \/ /\ tr.selection # NoSelection
     /\ \/ tr.selection.anchor > Len(ApplyChanges(d, tr.changes))
        \/ tr.selection.head > Len(ApplyChanges(d, tr.changes))
        \/ tr.selection.anchor < 0
        \/ tr.selection.head < 0

NewSelection(tr, from, to) ==
  IF tr.selection # NoSelection
  THEN [from |-> IF tr.selection.anchor <= tr.selection.head
                 THEN tr.selection.anchor ELSE tr.selection.head,
        to |-> IF tr.selection.anchor <= tr.selection.head
               THEN tr.selection.head ELSE tr.selection.anchor]
  ELSE IF from = to
       THEN [from |-> MapPos(tr.changes, 1, from, -1, 0),
             to |-> MapPos(tr.changes, 1, from, -1, 0)]
       ELSE [from |-> MapPos(tr.changes, 1, from, 1, 0),
             to |-> MapPos(tr.changes, 1, to, -1, 0)]

(***************************************************************************)
(* Toggle orchestrator: the applyFormatting callback of useTextFormatting. *)
(* The result is the list of transactions it hands to view.dispatch, or a  *)
(* refusal when it returns before dispatching.                             *)
(***************************************************************************)
Change(from, to, insert) == [from |-> from, to |-> to, insert |-> insert]

\* Variant: the first touched line decides for all of them.
BulletChanges_FirstLineDecides(d, selectedLines) ==
  [k \in 1..Len(selectedLines) |->
     Change(selectedLines[k].from, selectedLines[k].to,
            IF isBulletList(getLineContent(d, selectedLines[1]))
            THEN removeBulletList(getLineContent(d, selectedLines[k]))
            ELSE applyBulletList(getLineContent(d, selectedLines[k])))]

BulletChanges(d, selectedLines) ==
  [k \in 1..Len(selectedLines) |->
     Change(selectedLines[k].from, selectedLines[k].to,
            toggleBulletList(getLineContent(d, selectedLines[k])))]

\* Variant: the check for inline types is missing.
allowedWithoutSelection_Any(formatType) == formatType \in FormatTypes

\* Line 149: only headers and bullets are allowed when nothing is selected.
allowedWithoutSelection(formatType) ==
  ~(formatType # "h1" /\ formatType # "h2" /\ formatType # "h3" /\ formatType # "bullet")

\* Variant: the multi-line check is missing.
headerOnMultiLine_Never(formatType, isSingleLine) == FALSE

\* Line 184: header formatting is prevented on multi-line selections.
headerOnMultiLine(formatType, isSingleLine) ==
  (formatType = "h1" \/ formatType = "h2" \/ formatType = "h3") /\ ~isSingleLine

\* Variant: the change carries an explicit caret at the start of the line.
lineTransaction_KeepsCaret(l, formattedLine) ==
  [changes |-> <<Change(l.from, l.to, formattedLine)>>,
   selection |-> [anchor |-> l.from, head |-> l.from]]

\* Variant: the replaced range also takes the line break.
lineTransaction_WithBreak(l, formattedLine) ==
  [changes |-> <<Change(l.from, l.to + 1, formattedLine)>>, selection |-> NoSelection]

\* Lines 167-173: the whole line is replaced, no selection is given.
lineTransaction(l, formattedLine) ==
  [changes |-> <<Change(l.from, l.to, formattedLine)>>, selection |-> NoSelection]

\* Variant: the new head is measured from the old end of the selection.
selectionTransaction_HeadFromTo(from, to, formattedText) ==
  [changes |-> <<Change(from, to, formattedText)>>,
   selection |-> [anchor |-> from, head |-> to + Len(formattedText)]]

\* Lines 210-220: the selected range is replaced and re-selected.
selectionTransaction(from, to, formattedText) ==
  [changes |-> <<Change(from, to, formattedText)>>,
   selection |-> [anchor |-> from, head |-> from + Len(formattedText)]]

applyFormattingCalls(d, from, to, formatType) ==
  IF from = to
  THEN LET l == lineAt(d, from)
           lineContent == sliceDoc(d, l.from, l.to)
           formattedLine ==
             CASE formatType = "h1" -> toggleH1(lineContent)
               [] formatType = "h2" -> toggleH2(lineContent)
               [] formatType = "h3" -> toggleH3(lineContent)
               [] formatType = "bullet" -> toggleBulletList(lineContent)
               [] OTHER -> lineContent
       IN IF ~allowedWithoutSelection(formatType)
          THEN [refused |-> TRUE, transactions |-> <<>>]
          ELSE [refused |-> FALSE,
                transactions |-> <<lineTransaction(l, formattedLine)>>]
  ELSE LET selectedLines == getSelectedLines(d, from, to)
           isSingleLine == Len(selectedLines) = 1
           selectedText == sliceDoc(d, from, to)
           formattedText == toggleFormat(selectedText, formatType)
       IN IF headerOnMultiLine(formatType, isSingleLine)
          THEN [refused |-> TRUE, transactions |-> <<>>]
          ELSE IF formatType = "bullet" /\ ~isSingleLine
               THEN [refused |-> FALSE,
                     transactions |->
                       <<[changes |-> BulletChanges(d, selectedLines),
                          selection |-> NoSelection]>>]
               ELSE [refused |-> FALSE,
                     transactions |->
                       <<selectionTransaction(from, to, formattedText)>>]

(***************************************************************************)
(* State machine.                                                          *)
(***************************************************************************)
\* What is remembered of the toggle request before the last one.
NoPrev ==
  [type |-> "none", outcome |-> "none", doc |-> <<>>, from |-> 0, to |-> 0]

\* `via` is how the request was issued ("click" or "key" when it came from
\* the toolbar) and `disabled` whether its button was disabled at that time.
NoLast ==
  [type |-> "none", outcome |-> "none", transactions |-> <<>>,
   doc |-> <<>>, from |-> 0, to |-> 0, prev |-> NoPrev,
   via |-> "none", disabled |-> FALSE]

\* Line texts of the initial documents.
LEmpty == <<>>
LPlain == <<"x">>
LWords == <<"a", " ", "x">>
LH1 == <<"#", " ", "x">>
LH2 == <<"#", "#", " ", "x">>
LH3 == <<"#", "#", "#", " ", "x">>
LH4 == <<"#", "#", "#", "#", " ", "x">>
LHash == <<"#", "x">>
LIndentH1 == <<" ", "#", " ", "x">>
LIndent == <<" ", "x">>
LTrail == <<"x", " ">>
LBullet == <<"-", " ", "x">>
LStar == <<"*", " ", "x">>
LBold == <<"<", "b", ">", "x", "<", "/", "b", ">">>
LItalic == <<"<", "i", ">", "x", "<", "/", "i", ">">>
LUnderline == <<"<", "u", ">", "x", "<", "/", "u", ">">>
LStrike == <<"~", "~", "x", "~", "~">>

RECURSIVE Join(_)
Join(lines) ==
  IF Len(lines) = 1
  THEN lines[1]
  ELSE lines[1] \o <<NL>> \o Join(Tail(lines))

InitDocs ==
  { Join(ls) : ls \in
      { <<LEmpty>>, <<LPlain>>, <<LWords>>, <<LH1>>, <<LH2>>, <<LH3>>, <<LH4>>,
        <<LHash>>, <<LIndentH1>>, <<LBullet>>, <<LStar>>, <<LBold>>, <<LItalic>>,
        <<LUnderline>>, <<LStrike>>,
        <<LPlain, LPlain>>, <<LPlain, LEmpty>>, <<LEmpty, LPlain>>,
        <<LH1, LH1>>, <<LH1, LH2>>, <<LH3, LH3>>, <<LH1, LPlain>>,
        <<LBullet, LBullet>>, <<LBullet, LStar>>, <<LBullet, LPlain>>,
        <<LPlain, LBullet>>,
        <<LBold, LPlain>>, <<LPlain, LBold>>, <<LBold, LEmpty>>,
        <<LItalic, LPlain>>, <<LUnderline, LPlain>>, <<LPlain, LStrike>>,
        <<LBullet, LEmpty, LBullet>>, <<LPlain, LPlain, LPlain>> } }

Init ==
  /\ doc \in InitDocs
  /\ selFrom = 0
  /\ selTo = 0
  /\ editorView = "null"
  /\ hook = useTextFormattingMemo("null", doc, 0, 0)
  /\ last = NoLast
  /\ toggles = 0
  /\ activeKeyboardIndex = -1

\* A re-render of CodeMirrorEditor for any reason (props, timers).
Render ==
  /\ editorView' = "view"
  /\ hook' = RenderedHook(doc, selFrom, selTo)
  /\ UNCHANGED <<doc, selFrom, selTo, last, toggles, activeKeyboardIndex>>

\* The user moves the caret or selects [from, to); the update listener sees
\* selectionSet and bumps selectionUpdateCount, which re-renders.  A run of
\* the model is any number of selection changes followed by at most
\* MaxToggles toggle requests.
SelectionChange ==
  \E from \in 0..Len(doc) : \E to \in from..Len(doc) :
    /\ toggles = 0
    /\ <<from, to>> # <<selFrom, selTo>>
    /\ selFrom' = from
    /\ selTo' = to
    /\ editorView' = "view"
    /\ hook' = RenderedHook(doc, from, to)
    /\ last' = NoLast
    /\ UNCHANGED <<doc, toggles, activeKeyboardIndex>>

\* What a later request remembers of the request `l`.
Earlier(l) ==
  [type |-> l.type, outcome |-> l.outcome, doc |-> l.doc,
   from |-> l.from, to |-> l.to]

\* One call of applyFormatting(formatType), the limit-th of the run at
\* most; `request` is what is already known of the request.
applyFormattingOf(formatType, limit, request) ==
  /\ toggles < limit
  /\ toggles' = toggles + 1
  /\ LET asked == [request EXCEPT !.type = formatType, !.doc = doc,
                                  !.from = selFrom, !.to = selTo]
     IN IF editorView = "null"
        THEN /\ last' = [asked EXCEPT !.outcome = "noview"]
             /\ UNCHANGED <<doc, selFrom, selTo, editorView, hook>>
        ELSE LET r == applyFormattingCalls(doc, selFrom, selTo, formatType)
                 pre == [asked EXCEPT !.transactions = r.transactions]
             IN IF r.refused
                THEN /\ last' = [pre EXCEPT !.outcome = "refused"]
                     /\ UNCHANGED <<doc, selFrom, selTo, editorView, hook>>
                ELSE LET tr == r.transactions[1]
                         newDoc == ApplyChanges(doc, tr.changes)
                         newSel == NewSelection(tr, selFrom, selTo)
                     IN IF DispatchThrows(doc, tr)
                        THEN /\ last' = [pre EXCEPT !.outcome = "threw"]
                             /\ UNCHANGED <<doc, selFrom, selTo, editorView, hook>>
                        ELSE /\ Len(newDoc) <= MaxDocLen
                             /\ doc' = newDoc
                             /\ selFrom' = newSel.from
                             /\ selTo' = newSel.to
                             /\ last' = [pre EXCEPT !.outcome = "dispatched"]
                             /\ UNCHANGED <<editorView, hook>>

\* A toggle request for any type, however it is issued; `before` is what is
\* remembered of the request before it.
applyFormattingWithin(limit, before) ==
  /\ \E formatType \in FormatTypes :
       applyFormattingOf(formatType, limit, [NoLast EXCEPT !.prev = before])
  /\ UNCHANGED activeKeyboardIndex

applyFormatting == applyFormattingWithin(MaxToggles, NoPrev)

Next == Render \/ SelectionChange \/ applyFormatting

Spec == Init /\ [][Next]_vars

(***************************************************************************)
(* The same editor, followed for one toggle request more, from documents   *)
(* of at most three short lines: what a second request does to the result  *)
(* of the first.                                                           *)
(***************************************************************************)
RoundTripDocs ==
  { Join(ls) : ls \in
      { <<LPlain>>, <<LEmpty>>, <<LIndent>>, <<LTrail>>, <<LHash>>,
        <<LWords>>, <<LH1>>, <<LH2>>, <<LBullet>>,
        <<LPlain, LPlain>>, <<LPlain, LEmpty>>, <<LIndent, LPlain>>,
        <<LHash, LPlain>>, <<LWords, LEmpty>>, <<LPlain, LEmpty, LPlain>>,
        <<LPlain, LPlain, LPlain>> } }

InitRoundTrip ==
  /\ doc \in RoundTripDocs
  /\ selFrom = 0
  /\ selTo = 0
  /\ editorView = "null"
  /\ hook = useTextFormattingMemo("null", doc, 0, 0)
  /\ last = NoLast
  /\ toggles = 0
  /\ activeKeyboardIndex = -1

applyFormattingAgain == applyFormattingWithin(MaxToggles + 1, Earlier(last))

NextRoundTrip == Render \/ SelectionChange \/ applyFormattingAgain

SpecRoundTrip == InitRoundTrip /\ [][NextRoundTrip]_vars

(***************************************************************************)
(* The editor with its formatting toolbar (TextFormattingIsland): toggle   *)
(* requests are issued by a click on a button or by Enter / Space on the   *)
(* button the arrow keys have moved the keyboard focus to.  The toolbar is *)
(* taken to be open whenever the view is mounted: the caret has been       *)
(* stable for the threshold of useCursorStability and nothing scrolls.     *)
(***************************************************************************)
FORMATTING_BUTTONS ==
  <<"bold", "italic", "underline", "strikethrough", "h1", "h2", "h3", "bullet">>

\* useCursorStability: the number of lines from lineAt(from) to lineAt(to).
selectionLineCount(d, from, to) ==
  IF from # to
  THEN lineAt(d, to).number - lineAt(d, from).number + 1
  ELSE 1

\* CodeMirrorEditor: hasSelection is the one useTextFormatting returns.
isSingleLineSelection ==
  ~hook.hasSelection \/ selectionLineCount(doc, selFrom, selTo) = 1

islandVisible == editorView = "view"

\* The isDisabled of the button of formatType, as TextFormattingIsland
\* computes it for its inline and its block buttons.
isDisabled(formatType) ==
  IF formatType \in {"bold", "italic", "underline", "strikethrough"}
  THEN ~hook.hasSelection
  ELSE (formatType = "h1" \/ formatType = "h2" \/ formatType = "h3") /\
       ~isSingleLineSelection

ToolbarDocs ==
  { Join(ls) : ls \in
      { <<LPlain>>, <<LBold>>, <<LH1>>, <<LPlain, LPlain>>, <<LBullet, LPlain>> } }

InitToolbar ==
  /\ doc \in ToolbarDocs
  /\ selFrom = 0
  /\ selTo = 0
  /\ editorView = "null"
  /\ hook = useTextFormattingMemo("null", doc, 0, 0)
  /\ last = NoLast
  /\ toggles = 0
  /\ activeKeyboardIndex = -1

\* handleKeyDown, case 'ArrowRight'.
ArrowRight ==
  /\ islandVisible
  /\ activeKeyboardIndex' = (activeKeyboardIndex + 1) % Len(FORMATTING_BUTTONS)
  /\ UNCHANGED <<doc, selFrom, selTo, editorView, hook, last, toggles>>

\* handleKeyDown, case 'ArrowLeft'.
ArrowLeft ==
  /\ islandVisible
  /\ activeKeyboardIndex' =
       (activeKeyboardIndex - 1 + Len(FORMATTING_BUTTONS)) % Len(FORMATTING_BUTTONS)
  /\ UNCHANGED <<doc, selFrom, selTo, editorView, hook, last, toggles>>

\* handleKeyDown, case 'Enter' / ' ': the button at activeKeyboardIndex, if
\* there is one, is formatted; its isDisabled is not consulted.
EnterOrSpace ==
  /\ islandVisible
  /\ IF activeKeyboardIndex >= 0
     THEN LET type == FORMATTING_BUTTONS[activeKeyboardIndex + 1]
          IN applyFormattingOf(type, MaxToggles,
                               [NoLast EXCEPT !.via = "key",
                                              !.disabled = isDisabled(type)])
     ELSE UNCHANGED <<doc, selFrom, selTo, editorView, hook, last, toggles>>
  /\ UNCHANGED activeKeyboardIndex

\* FormattingButton: onClick is undefined on a disabled button.
ClickButton ==
  /\ islandVisible
  /\ \E k \in 1..Len(FORMATTING_BUTTONS) :
       IF isDisabled(FORMATTING_BUTTONS[k])
       THEN UNCHANGED <<doc, selFrom, selTo, editorView, hook, last, toggles>>
       ELSE applyFormattingOf(FORMATTING_BUTTONS[k], MaxToggles,
                              [NoLast EXCEPT !.via = "click"])
  /\ UNCHANGED activeKeyboardIndex

NextToolbar ==
  Render \/ SelectionChange \/ ArrowRight \/ ArrowLeft \/ EnterOrSpace \/ ClickButton

SpecToolbar == InitToolbar /\ [][NextToolbar]_vars

(***************************************************************************)
(* The pure layer on its own: `doc` is one text, drawn from the strings    *)
(* made of up to three pieces of markup, content or white space, and the   *)
(* functions of lib/formatting-actions are applied to it for as long as    *)
(* the result has at most MaxTextLen characters.                           *)
(***************************************************************************)
TextPieces ==
  { <<>>, <<"x">>, <<" ">>, <<"#">>, <<"#", " ">>, <<"-", " ">>, <<"*", " ">>,
    BOpen, BClose, IOpen, IClose, UOpen, UClose, Tildes }

TextInputs ==
  { a \o b \o c : a \in TextPieces, b \in TextPieces, c \in TextPieces }

\* Texts of more pieces: nested layers with white space between them.
TextSeeds ==
  { BOpen \o <<" ">> \o BOpen \o <<"x">> \o BClose \o BClose,
    BOpen \o BOpen \o <<"x">> \o BClose \o <<" ">> \o BClose,
    IOpen \o <<" ">> \o IOpen \o <<"x">> \o IClose \o IClose,
    IOpen \o <<" ">> \o BOpen \o <<"x">> \o BClose \o IClose }

InitText ==
  /\ doc \in TextInputs \cup TextSeeds
  /\ selFrom = 0
  /\ selTo = 0
  /\ editorView = "null"
  /\ hook = useTextFormattingMemo("null", doc, 0, 0)
  /\ last = NoLast
  /\ toggles = 0
  /\ activeKeyboardIndex = -1

applyText ==
  \E formatType \in FormatTypes :
    /\ Len(applyFormat(doc, formatType)) <= MaxTextLen
    /\ doc' = applyFormat(doc, formatType)
    /\ UNCHANGED <<selFrom, selTo, editorView, hook, last, toggles,
                   activeKeyboardIndex>>

removeText ==
  \E formatType \in FormatTypes :
    /\ doc' = removeFormat(doc, formatType)
    /\ UNCHANGED <<selFrom, selTo, editorView, hook, last, toggles,
                   activeKeyboardIndex>>

toggleText ==
  \E formatType \in FormatTypes :
    /\ Len(toggleFormat(doc, formatType)) <= MaxTextLen
    /\ doc' = toggleFormat(doc, formatType)
    /\ UNCHANGED <<selFrom, selTo, editorView, hook, last, toggles,
                   activeKeyboardIndex>>

NextText == applyText \/ removeText \/ toggleText

SpecText == InitText /\ [][NextText]_vars

(***************************************************************************)
(* Vocabulary of the properties.  The line texts are obtained by splitting *)
(* the document at its line breaks, independently of lineAt / line.        *)
(***************************************************************************)
RECURSIVE SplitLines(_)
SplitLines(d) ==
  LET breaks == {i \in 1..Len(d) : d[i] = NL}
  IN IF breaks = {}
     THEN <<d>>
     ELSE <<SubSeq(d, 1, Min(breaks) - 1)>> \o
          SplitLines(SubSeq(d, Min(breaks) + 1, Len(d)))

LineNumberOf(d, pos) == 1 + Cardinality({i \in 1..pos : d[i] = NL})

\* Texts of the lines the resolver works on for the range from..to.
TouchedTexts(d, from, to) ==
  SubSeq(SplitLines(d), LineNumberOf(d, from), LineNumberOf(d, to))

CurrentState == detectAdvancedFormatState(doc, selFrom, selTo)
CurrentTouched == TouchedTexts(doc, selFrom, selTo)

Some(texts, detect) == \E k \in 1..Len(texts) : Check(detect, texts[k])
Every(texts, detect) == \A k \in 1..Len(texts) : Check(detect, texts[k])

AtMostOneHeading(fs) == Cardinality({k \in {"h1", "h2", "h3"} : fs[k]}) <= 1

\* C4: at most one of h1, h2, h3 is true in the state the hook exposes, in
\* the state resolved for the current selection, and in detectFormatState of
\* the selected text and of every line of the document.
C4_HeadingFlagsExclusive ==
  /\ AtMostOneHeading(hook.formatState)
  /\ AtMostOneHeading(CurrentState)
  /\ AtMostOneHeading(detectFormatState(sliceDoc(doc, selFrom, selTo)))
  /\ \A n \in 1..Len(SplitLines(doc)) :
       AtMostOneHeading(detectFormatState(SplitLines(doc)[n]))

\* After a toggle edit, with a heading flag set in the hook's state and in
\* the resolved state.
C4_Witness ==
  /\ last.outcome = "dispatched"
  /\ hook.formatState.h2
  /\ CurrentState.h3

\* The lines that overlap [from, to): a line with its line break occupies
\* the offsets l.from..l.to; a caret touches the line it sits in.
OverlapLines(d, from, to) ==
  LET touched == {n \in 1..LineCount(d) :
                    IF from = to
                    THEN line(d, n).from <= from /\ from <= line(d, n).to
                    ELSE line(d, n).from < to /\ from <= line(d, n).to}
  IN [k \in 1..Cardinality(touched) |-> line(d, Min(touched) + k - 1)]

\* C5: getSelectedLines returns, in ascending order, exactly the lines that
\* overlap [from, to), never an empty list; the line that starts at offset
\* `to` is not among them.
C5_SelectedLinesOverlap ==
  /\ getSelectedLines(doc, selFrom, selTo) = OverlapLines(doc, selFrom, selTo)
  /\ Len(getSelectedLines(doc, selFrom, selTo)) >= 1

\* The last toggle request ran on a mounted view.
Requested == last.type # "none" /\ last.outcome # "noview"

LastCaret == last.from = last.to
LastMultiLine == LineNumberOf(last.doc, last.from) # LineNumberOf(last.doc, last.to)
LastSelectedText == sliceDoc(last.doc, last.from, last.to)
NothingChanged == doc = last.doc /\ selFrom = last.from /\ selTo = last.to

\* C6: with a caret only, a request for an inline type is refused: nothing
\* is dispatched, document and caret stay as they were, nothing is thrown.
C6_InlineRefusedOnCaret ==
  (Requested /\ LastCaret /\ last.type \in InlineTypes) =>
    /\ last.outcome = "refused"
    /\ last.transactions = <<>>
    /\ NothingChanged

C6_Witness ==
  /\ Requested
  /\ LastCaret
  /\ last.type = "bold"
  /\ last.outcome = "refused"
  /\ isBold(doc)

\* C7: with a non-empty selection over more than one line, a request for
\* h1, h2 or h3 is refused: nothing is dispatched, document and selection
\* stay as they were.
C7_HeadingRefusedOnMultiLine ==
  (Requested /\ ~LastCaret /\ LastMultiLine /\ last.type \in HeaderTypes) =>
    /\ last.outcome = "refused"
    /\ last.transactions = <<>>
    /\ NothingChanged

C7_Witness ==
  /\ Requested
  /\ ~LastCaret
  /\ LastMultiLine
  /\ last.type = "h2"
  /\ last.outcome = "refused"

C9_BlockToggleWholeLine ==
  (Requested /\ ~LastCaret /\ ~LastMultiLine /\
   last.type \in HeaderTypes \cup {"bullet"}) =>
    LET l == lineAt(last.doc, last.from)
    IN /\ last.outcome = "dispatched"
       /\ last.transactions[1].changes =
            <<Change(l.from, l.to,
                     toggleFormat(sliceDoc(last.doc, l.from, l.to), last.type))>>

\* C10: with a non-empty selection, a request for an inline type dispatches
\* the single change [from, to) -> toggle(selectedText), and the new
\* selection is anchor = from, head = from + length of the replacement, which
\* spans exactly the replacement in the new document.
C10_InlineToggleSelection ==
  (Requested /\ ~LastCaret /\ last.type \in InlineTypes) =>
    LET replacement == toggleFormat(LastSelectedText, last.type)
    IN /\ last.outcome = "dispatched"
       /\ last.transactions =
            <<[changes |-> <<Change(last.from, last.to, replacement)>>,
               selection |-> [anchor |-> last.from,
                              head |-> last.from + Len(replacement)]]>>
       /\ doc = SubSeq(last.doc, 1, last.from) \o replacement \o
                SubSeq(last.doc, last.to + 1, Len(last.doc))
       /\ selFrom = last.from
       /\ selTo = last.from + Len(replacement)
       /\ sliceDoc(doc, selFrom, selTo) = replacement

\* "x" selected inside the line "a x" and made bold.
C10_Witness ==
  /\ Requested
  /\ last.type = "bold"
  /\ last.doc = LWords
  /\ last.from = 2
  /\ last.to = 3
  /\ doc = <<"a", " ">> \o LBold
  /\ selFrom = 2
  /\ selTo = 10

\* Offset at which line n starts, from the line texts alone.
RECURSIVE OffsetOfLine(_, _)
OffsetOfLine(texts, n) ==
  IF n = 1 THEN 0 ELSE OffsetOfLine(texts, n - 1) + Len(texts[n - 1]) + 1

LastLines == SplitLines(last.doc)
LastFirstLine == LineNumberOf(last.doc, last.from)
LastLastLine == LineNumberOf(last.doc, last.to)

C12_CaretBlockToggleLine ==
  (Requested /\ LastCaret /\ last.type \in HeaderTypes \cup {"bullet"}) =>
    LET texts == LastLines
        n == LastFirstLine
        toggled == toggleFormat(texts[n], last.type)
    IN /\ last.outcome = "dispatched"
       /\ last.transactions =
            <<[changes |-> <<Change(OffsetOfLine(texts, n),
                                    OffsetOfLine(texts, n) + Len(texts[n]),
                                    toggled)>>,
               selection |-> NoSelection]>>
       /\ SplitLines(doc) = [texts EXCEPT ![n] = toggled]

\* Caret in the blank middle line of three: only that line changes.
C12_Witness ==
  /\ Requested
  /\ LastCaret
  /\ last.type = "h2"
  /\ last.outcome = "dispatched"
  /\ last.doc = Join(<<LBullet, LEmpty, LBullet>>)
  /\ last.from = 4
  /\ doc = Join(<<LBullet, <<"#", "#", " ">>, LBullet>>)

\* The last two toggle requests were both dispatched and asked for the same
\* type; no selection change lies between them.
ToggledTwice(type) ==
  /\ last.type = type
  /\ last.outcome = "dispatched"
  /\ last.prev.type = type
  /\ last.prev.outcome = "dispatched"

FirstCaret == last.prev.from = last.prev.to
FirstLines == SplitLines(last.prev.doc)
FirstFirstLine == LineNumberOf(last.prev.doc, last.prev.from)
FirstLastLine == LineNumberOf(last.prev.doc, last.prev.to)

\* The caret line before the first toggle, between the two, and after both.
CaretLineBefore == FirstLines[FirstFirstLine]
CaretLineBetween == LastLines[LastFirstLine]
CaretLineAfter == SplitLines(doc)[LastFirstLine]

HasHeaderMarker(text) == StripHeaderMarker(Trim(text)) # Trim(text)

\* C13 as stated: with a caret only, for every line text not at level k, a
\* first toggle(hk) makes the line a level-k heading and a second toggle(hk)
\* restores exactly the original line text.
C13_HeadingRoundTrip ==
  \A type \in HeaderTypes :
    (ToggledTwice(type) /\ FirstCaret /\ LastCaret /\
     ~detectFormatState(CaretLineBefore)[type]) =>
      /\ FirstFirstLine = LastFirstLine
      /\ detectFormatState(CaretLineBetween)[type]
      /\ CaretLineAfter = CaretLineBefore

\* C13 amended: the round trip holds for every line text that is not empty,
\* has no white space at either end and carries no heading marker of any
\* level ('#'s followed by white space).
C13_HeadingRoundTripPlain ==
  \A type \in HeaderTypes :
    (ToggledTwice(type) /\ FirstCaret /\ LastCaret /\
     CaretLineBefore # <<>> /\ Trim(CaretLineBefore) = CaretLineBefore /\
     ~HasHeaderMarker(CaretLineBefore)) =>
      /\ FirstFirstLine = LastFirstLine
      /\ detectFormatState(CaretLineBetween)[type]
      /\ CaretLineAfter = CaretLineBefore
      /\ SplitLines(doc) = FirstLines

\* "#x" on the first of two lines: h3 twice gives "### #x" and then "#x".
C13_Witness ==
  /\ ToggledTwice("h3")
  /\ FirstCaret
  /\ last.prev.doc = Join(<<LHash, LPlain>>)
  /\ last.doc = Join(<<<<"#", "#", "#", " ">> \o LHash, LPlain>>)
  /\ doc = Join(<<LHash, LPlain>>)

\* Texts of the lines the first of the two requests touched, before it,
\* between the two, and after both.
FirstTouched == SubSeq(FirstLines, FirstFirstLine, FirstLastLine)
TouchedBetween == SubSeq(LastLines, FirstFirstLine, FirstLastLine)
TouchedAfter == SubSeq(SplitLines(doc), FirstFirstLine, FirstLastLine)

\* C14: for a selection over several lines none of which is a bullet item,
\* a first bullet toggle makes every touched line "- " + its original text,
\* and a second bullet toggle over the same lines restores every touched
\* line to its original text.
C14_BulletRoundTrip ==
  (ToggledTwice("bullet") /\ ~FirstCaret /\
   FirstFirstLine # FirstLastLine /\
   LastFirstLine = FirstFirstLine /\ LastLastLine = FirstLastLine /\
   ~Some(FirstTouched, "isBulletList")) =>
    /\ \A k \in 1..Len(FirstTouched) :
         TouchedBetween[k] = <<"-", " ">> \o FirstTouched[k]
    /\ TouchedAfter = FirstTouched

\* C15: for the text s = doc and all levels j, k in {1, 2, 3},
\* applyHk(applyHj(s)) = applyHk(s): applying a level to a text that already
\* carries a heading marker replaces the marker.
C15_HeadingApplyNormalizes ==
  \A j \in HeaderTypes : \A k \in HeaderTypes :
    applyFormat(applyFormat(doc, j), k) = applyFormat(doc, k)

\* C16: for the text s = doc and each inline style, remove(remove(s)) =
\* remove(s).
C16_InlineRemoveIdempotent ==
  \A type \in InlineTypes :
    removeFormat(removeFormat(doc, type), type) = removeFormat(doc, type)

HasBulletMarker(text) == StripBulletMarker(Trim(text)) # Trim(text)

C18_ToggleInvolution ==
  /\ toggleUnderline(toggleUnderline(doc)) = doc
  /\ toggleStrikethrough(toggleStrikethrough(doc)) = doc

\* C18 amended: the double toggle gives s back for every non-empty text s
\* that is not detected as the style, and for that text wrapped once.
C18_ToggleInvolutionOneLayer ==
  \A type \in {"underline", "strikethrough"} :
    (doc # <<>> /\ ~detectFormatState(doc)[type]) =>
      /\ toggleFormat(toggleFormat(doc, type), type) = doc
      /\ toggleFormat(toggleFormat(applyFormat(doc, type), type), type) =
           applyFormat(doc, type)

\* " x" with its leading space, underlined and back.
C18_Witness ==
  /\ doc = UOpen \o LIndent \o UClose
  /\ toggleUnderline(doc) = LIndent
  /\ toggleUnderline(toggleUnderline(doc)) = doc

\* x wrapped n times in <b>...</b>.
RECURSIVE Wrapped(_, _)
Wrapped(x, n) == IF n = 0 THEN x ELSE applyBold(Wrapped(x, n - 1))

\* C19 as stated: for every x = doc that is not itself bold and every n in
\* 1..MaxLayers, removeBold of x wrapped n times is x; and
\* toggleBold(toggleBold("<b>x</b>")) = "<b>x</b>".
C19_RemoveBoldAllLayers ==
  /\ ~isBold(doc) => \A n \in 1..MaxLayers : removeBold(Wrapped(doc, n)) = doc
  /\ toggleBold(toggleBold(LBold)) = LBold

\* C19 amended: the same for every non-empty x that is not itself bold.
C19_RemoveBoldAllLayersNonEmpty ==
  /\ (~isBold(doc) /\ doc # <<>>) =>
       /\ \A n \in 1..MaxLayers : removeBold(Wrapped(doc, n)) = doc
       /\ toggleBold(toggleBold(applyBold(doc))) = applyBold(doc)
  /\ toggleBold(toggleBold(LBold)) = LBold

\* "<b><b>x</b></b>", reached by applying bold twice, and its removal.
C19_Witness ==
  /\ doc = Wrapped(LPlain, 2)
  /\ removeBold(doc) = LPlain

\* C20: for the text s = doc, if the trimmed s starts with "<b>" or ends
\* with "</b>" then isItalic(s) is false; s is never detected as both bold
\* and italic; and neither detectFormatState of s nor the state resolved
\* for s as a one-line document has bold and italic both true.
C20_BoldWinsTie ==
  /\ (startsWith(Trim(doc), BOpen) \/ endsWith(Trim(doc), BClose)) => ~isItalic(doc)
  /\ ~(isBold(doc) /\ isItalic(doc))
  /\ ~(detectFormatState(doc).bold /\ detectFormatState(doc).italic)
  /\ LET fs == detectAdvancedFormatState(doc, 0, Len(doc))
     IN ~(fs.bold /\ fs.italic)

\* Italic inside bold: detected as bold, not as italic.
C20_Witness ==
  /\ doc = applyBold(LItalic)
  /\ isBold(doc)
  /\ ~isItalic(doc)
  /\ isItalic(removeBold(doc))

\* The state useTextFormatting would compute from the editor as it is now.
ResolvedNow == useTextFormattingMemo(editorView, doc, selFrom, selTo)

CaretLineNow == SplitLines(doc)[LineNumberOf(doc, selFrom)]

\* C21: whenever the selection is a caret, the FormatState the hook exposes
\* has bold = italic = underline = strikethrough = false whatever the line
\* under the caret holds, and h1, h2, h3, bullet are those of that line;
\* with a null view all eight flags are false.
C21_CaretInlineFlagsFalse ==
  /\ editorView = "null" => hook.formatState = NoFormat
  /\ (editorView = "view" /\ selFrom = selTo) =>
       /\ ~hook.formatState.bold
       /\ ~hook.formatState.italic
       /\ ~hook.formatState.underline
       /\ ~hook.formatState.strikethrough
       /\ hook.formatState.h1 = isH1(CaretLineNow)
       /\ hook.formatState.h2 = isH2(CaretLineNow)
       /\ hook.formatState.h3 = isH3(CaretLineNow)
       /\ hook.formatState.bullet = isBulletList(CaretLineNow)

\* C22: on a mounted view, after any selection changes and toggle edits,
\* the formatState and hasSelection the hook returns are those resolved
\* from the current document and the current selection.
C22_FormatStateNeverStale ==
  editorView = "view" => hook = ResolvedNow

\* C23: whenever the toolbar is open, the button of type T is disabled iff
\* a toggle(T) request on the current document and selection would be
\* refused; and no request issued from the toolbar, by a click or by Enter /
\* Space on the keyboard-focused button, is for a disabled button.
C23_ToolbarDisablesWhatIsRefused ==
  /\ islandVisible =>
       \A type \in FormatTypes :
         isDisabled(type) = applyFormattingCalls(doc, selFrom, selTo, type).refused
  /\ last.via \in {"click", "key"} => ~last.disabled

\* removeItalic without the `break` on the bold markers inside its loop.
RECURSIVE removeItalicNoBreakLoop(_)
removeItalicNoBreakLoop(result) ==
  IF startsWith(result, IOpen) /\ endsWith(result, IClose) /\ Len(result) > 7
  THEN removeItalicNoBreakLoop(Slice(result, 3, 4))
  ELSE result

removeItalicNoBreak(text) == removeItalicNoBreakLoop(Trim(text))

\* C24: the check for bold markers inside the loop of removeItalic never
\* decides anything: for every text, removeItalic returns what the same loop
\* without the `break` returns.
C24_ItalicBoldCheckUnreachable == removeItalic(doc) = removeItalicNoBreak(doc)

\* An italic layer around a bold text has been built and removeItalic takes
\* it off down to the bold text.
C24_Witness ==
  /\ doc = IOpen \o BOpen \o <<"x">> \o BClose \o IClose
  /\ removeItalic(doc) = BOpen \o <<"x">> \o BClose

\* C25: removal of underline and of strikethrough takes off one layer: a text
\* detected as underlined (struck through) loses exactly the outer <u>..</u>
\* (~~..~~) pair of its trimmed form, so that putting the pair back gives the
\* trimmed text, and a text that is not detected is returned as it is, with
\* its surrounding white space.
C25_SingleLayerRemoval ==
  /\ isUnderline(doc) => UOpen \o removeUnderline(doc) \o UClose = Trim(doc)
  /\ ~isUnderline(doc) => removeUnderline(doc) = doc
  /\ isStrikethrough(doc) => Tildes \o removeStrikethrough(doc) \o Tildes = Trim(doc)
  /\ ~isStrikethrough(doc) => removeStrikethrough(doc) = doc

\* A doubly struck-through text has been built and keeps one layer.
C25_Witness ==
  /\ doc = Tildes \o Tildes \o <<"x">> \o Tildes \o Tildes
  /\ removeStrikethrough(doc) = Tildes \o <<"x">> \o Tildes
  /\ isStrikethrough(removeStrikethrough(doc))

\* C26: applying the bullet marker normalizes: the result of applyBulletList
\* carries one leading "- " in front of the content with an existing '-' or
\* '*' marker stripped, so that applying it to its own result changes nothing.
C26_BulletApplyNormalizes ==
  /\ applyBulletList(applyBulletList(doc)) = applyBulletList(doc)
  /\ applyBulletList(doc) = <<"-", " ">> \o removeBulletList(doc)

\* C28: removal removes, for the styles removed layer by layer: the result of
\* removeBold is never detected as bold and the result of removeItalic never
\* as italic, white space between nested layers included.
C28_RemovalRemoves ==
  /\ ~isBold(removeBold(doc))
  /\ ~isItalic(removeItalic(doc))

\* C29: apply establishes the style: the result of applying an inline style
\* to a non-empty text is detected as that style, and the result of applying
\* a heading level or the bullet marker to any line text, empty and
\* white-space-only ones included, is detected as that level or as a bullet.
C29_ApplyEstablishes ==
  /\ doc # <<>> =>
       /\ isBold(applyBold(doc))
       /\ isItalic(applyItalic(doc))
       /\ isUnderline(applyUnderline(doc))
       /\ isStrikethrough(applyStrikethrough(doc))
  /\ isH1(applyH1(doc))
  /\ isH2(applyH2(doc))
  /\ isH3(applyH3(doc))
  /\ isBulletList(applyBulletList(doc))

\* The FormatState a fresh resolution reports for document d and selection
\* [from, to).
Resolved(d, from, to) == useTextFormattingMemo("view", d, from, to).formatState

\* C27: a toggle that is not refused flips the state the UI reports: the flag
\* of the toggled type resolved on the document and selection after the edit
\* is the negation of the flag resolved on the document and selection before
\* it (an active style is removed, not wrapped once more, and a bullet toggle
\* on mixed lines gives all-bullet lines).
C27_ToggleFlipsReportedState ==
  last.outcome = "dispatched" =>
    Resolved(doc, selFrom, selTo)[last.type]
      = ~Resolved(last.doc, last.from, last.to)[last.type]

\* The text of d outside [from, to) is the text of e outside [from, e's end
\* minus what followed `to` in d).
SameOutside(d, e, from, to) ==
  /\ Len(e) >= Len(d) - (to - from)
  /\ SubSeq(e, 1, from) = SubSeq(d, 1, from)
  /\ SubSeq(e, Len(e) - (Len(d) - to) + 1, Len(e)) = SubSeq(d, to + 1, Len(d))

\* C30: a toggle changes only what it targets: after a dispatched inline
\* toggle the document text before `from` and after `to` is what it was,
\* after a dispatched block toggle the text before the first touched line
\* and after the last touched line is what it was, and no toggle of any type
\* changes the number of lines of the document.
C30_ToggleChangesOnlyItsTarget ==
  last.outcome = "dispatched" =>
    /\ last.type \in InlineTypes =>
         SameOutside(last.doc, doc, last.from, last.to)
    /\ last.type \notin InlineTypes =>
         SameOutside(last.doc, doc,
                     OffsetOfLine(LastLines, LastFirstLine),
                     OffsetOfLine(LastLines, LastLastLine)
                       + Len(LastLines[LastLastLine]))
    /\ Len(SplitLines(doc)) = Len(LastLines)

====
